---- MODULE Spec2Model ----
(***************************************************************************)
(* Model of src/app.py: the sitemap resolver get_page_count and the batch  *)
(* orchestrator process_domains_batch.                                     *)
(*                                                                         *)
(* get_page_count is modelled as a frame (its local variables plus a       *)
(* program counter) advanced by one HTTP GET per step; the response to     *)
(* each GET is an input.  process_domains_batch is modelled as the         *)
(* orchestrating thread plus the worker pool of ThreadPoolExecutor.        *)
(***************************************************************************)
EXTENDS Integers, Sequences, FiniteSets, TLC

(***************************************************************************)
(* Bounds of the model.                                                    *)
(***************************************************************************)
MaxUrls == 2
MaxChildren == 2
MaxMsgLen == 51
MaxDomains == 2
BatchUrls == 1
BatchChildren == 0
MaxExtraChildren == 2
MaxExtraTasks == 1
MaxWww == 2
MaxLines == 3

(***************************************************************************)
(* Program constants.                                                      *)
(***************************************************************************)
NumCandidates == 4
ChildLimit == 10
HomepageTimeout == 5
BatchRequestTimeout == 20
TaskCeiling == 25
max_workers == 10
ErrPrefixLen == 50

Min(a, b) == IF a < b THEN a ELSE b

(***************************************************************************)
(* Method labels.  A method is a record: the label, the number N of the    *)
(* f-string "Sitemap index (N sitemaps)", and the message prefix of        *)
(* "Error: ...".  Messages are sequences of character codes.               *)
(***************************************************************************)
Method(label) == [label |-> label, n |-> 0, msg |-> <<>>]
MethodIndex(n) == [label |-> "Sitemap index (N sitemaps)", n |-> n, msg |-> <<>>]
Slice(s, k) == SubSeq(s, 1, Min(Len(s), k))
\* faulty variant: the message is not cut to its first 50 characters
MethodErrorWhole(e) == [label |-> "Error: ", n |-> 0, msg |-> e]
MethodError(e) == [label |-> "Error: ", n |-> 0, msg |-> Slice(e, ErrPrefixLen)]

(***************************************************************************)
(* Responses of the network to one GET.                                    *)
(*   RequestException : connection refused, DNS failure, reset             *)
(*   Timeout          : requests.Timeout after the timeout of the call     *)
(*   Exception        : any fault that is not a requests.RequestException  *)
(*   response         : an HTTP response with a status code and a body;    *)
(*                      the body is malformed or XML with `sitemaps`       *)
(*                      <sitemap> elements, `locs` of them with a <loc>,   *)
(*                      and `urls` <url> elements                          *)
(***************************************************************************)
Text(n) == [k \in 1..n |-> k % 10]
FaultMsgs == {Text(0), Text(ErrPrefixLen), Text(MaxMsgLen)}

Raise(kind, msg) ==
    [kind |-> kind, status_code |-> 0, wellformed |-> FALSE,
     sitemaps |-> 0, locs |-> 0, urls |-> 0, msg |-> msg]
Http(code, wf, sm, lc, u) ==
    [kind |-> "response", status_code |-> code, wellformed |-> wf,
     sitemaps |-> sm, locs |-> lc, urls |-> u, msg |-> <<>>]

RequestFailures == {Raise("RequestException", <<>>), Raise("Timeout", <<>>)}
Faults == {Raise("Exception", m) : m \in FaultMsgs}
BadResponses == {Http(404, FALSE, 0, 0, 0), Http(200, FALSE, 0, 0, 0)}
UrlSets(u) == {Http(200, TRUE, 0, 0, n) : n \in 0..u}
Indexes(c) ==
    {r \in {Http(200, TRUE, sm, lc, 0) : sm \in 1..c, lc \in 0..c} : r.locs <= r.sitemaps}

\* the responses to a candidate, a child and the homepage GET, with at most
\* u <url> elements in a document and at most c <sitemap> elements in an index
CandidateResponses(u, c) ==
    RequestFailures \cup Faults \cup BadResponses \cup UrlSets(u) \cup Indexes(c)
ChildResponses(u) ==
    RequestFailures \cup {Raise("Exception", Text(0))} \cup BadResponses \cup UrlSets(u)
HomepageResponses ==
    RequestFailures \cup {Raise("Exception", Text(0)),
                          Http(200, FALSE, 0, 0, 0), Http(404, FALSE, 0, 0, 0)}

(***************************************************************************)
(* URLs requested by get_page_count.                                       *)
(***************************************************************************)
sitemap_urls ==
    << [kind |-> "candidate", www |-> FALSE, path |-> "/sitemap.xml", k |-> 1],
       [kind |-> "candidate", www |-> TRUE,  path |-> "/sitemap.xml", k |-> 2],
       [kind |-> "candidate", www |-> FALSE, path |-> "/sitemap_index.xml", k |-> 3],
       [kind |-> "candidate", www |-> TRUE,  path |-> "/sitemap_index.xml", k |-> 4] >>
ChildUrl(j) == [kind |-> "child", www |-> FALSE, path |-> "loc", k |-> j]
HomepageUrl == [kind |-> "homepage", www |-> FALSE, path |-> "", k |-> 0]

(***************************************************************************)
(* get_page_count(domain, timeout_seconds).  A frame holds the locals of   *)
(* one call: k is the position in sitemap_urls, individual_sitemaps the    *)
(* number of child loc URLs collected from the index, c the position in    *)
(* individual_sitemaps[:10].  log lists the GETs issued with the response  *)
(* each received; elapsed is the time spent in GETs that ran into their    *)
(* timeout (a lower bound of the running time of the call).                *)
(***************************************************************************)
Call(domain, timeout_seconds) ==
    [pc |-> IF domain = "" THEN "returned" ELSE "candidates",
     domain |-> domain, timeout_seconds |-> timeout_seconds,
     k |-> 1, individual_sitemaps |-> 0, c |-> 1,
     total_pages |-> 0,
     method |-> IF domain = "" THEN Method("Invalid domain") ELSE Method("No sitemap found"),
     exc |-> [type |-> "", msg |-> <<>>], log |-> <<>>, elapsed |-> 0]

\* session.get(url, timeout=t): the request is issued; a Timeout takes t seconds
Get(g, url, r, t) ==
    [g EXCEPT !.log = Append(@, [url |-> url, resp |-> r]),
              !.elapsed = IF r.kind = "Timeout" THEN @ + t ELSE @]

\* faulty variant: the homepage probe runs after every candidate loop
AfterLoopAlwaysProbes(g) == [g EXCEPT !.pc = "homepage"]

\* after the candidate loop: the homepage probe runs when no pages were found
AfterLoop(g) ==
    [g EXCEPT !.pc = IF g.total_pages = 0 THEN "homepage" ELSE "returned"]

\* `continue`, or falling off the end of the loop body: the next candidate
NextCandidate(g) ==
    IF g.k = NumCandidates THEN AfterLoop(g) ELSE [g EXCEPT !.k = @ + 1]

\* the index branch up to the loop over individual_sitemaps[:10]
EnterIndex(g, r) ==
    LET h == [g EXCEPT !.individual_sitemaps = r.locs, !.c = 1]
    IN  IF Min(r.locs, ChildLimit) = 0
        THEN AfterLoop([h EXCEPT !.method = MethodIndex(r.locs)])
        ELSE [h EXCEPT !.pc = "children"]

\* faulty variant: the regular-sitemap branch without its break
LeafSitemapNoBreak(g, r) ==
    NextCandidate([g EXCEPT !.total_pages = r.urls, !.method = Method("Single sitemap")])

\* faulty variant: the regular-sitemap branch without the assignment to method
LeafSitemapKeepsMethod(g, r) ==
    AfterLoop([g EXCEPT !.total_pages = r.urls])

\* the regular-sitemap branch
LeafSitemap(g, r) ==
    AfterLoop([g EXCEPT !.total_pages = r.urls, !.method = Method("Single sitemap")])

\* one iteration of `for sitemap_url in sitemap_urls`
CandidateStep(g, r) ==
    LET h == Get(g, sitemap_urls[g.k], r, g.timeout_seconds)
    IN  CASE r.kind \in {"RequestException", "Timeout"} -> NextCandidate(h)
          [] r.kind = "Exception" -> [h EXCEPT !.pc = "raised", !.exc = [type |-> "Exception", msg |-> r.msg]]
          [] r.kind = "response" /\ r.status_code # 200 -> NextCandidate(h)
          [] r.kind = "response" /\ r.status_code = 200 /\ ~r.wellformed -> NextCandidate(h)
          [] OTHER -> IF r.sitemaps > 0 THEN EnterIndex(h, r) ELSE LeafSitemap(h, r)

\* faulty variant: a failed child marks the count with -1
CountChildSentinel(g, r) ==
    IF r.kind = "response" /\ r.status_code = 200 /\ r.wellformed
    THEN [g EXCEPT !.total_pages = @ + r.urls]
    ELSE [g EXCEPT !.total_pages = -1]

\* faulty variant: a failed child discards what the earlier children counted
CountChildReset(g, r) ==
    IF r.kind = "response" /\ r.status_code = 200 /\ r.wellformed
    THEN [g EXCEPT !.total_pages = @ + r.urls]
    ELSE [g EXCEPT !.total_pages = 0]

\* the body of `for individual_sitemap in individual_sitemaps[:10]`
CountChild(g, r) ==
    IF r.kind = "response" /\ r.status_code = 200 /\ r.wellformed
    THEN [g EXCEPT !.total_pages = @ + r.urls]
    ELSE g

\* faulty variant: the loop runs over individual_sitemaps without the [:10]
ChildStepNoLimit(g, r) ==
    LET h == CountChild(Get(g, ChildUrl(g.c), r, g.timeout_seconds), r)
    IN  IF g.c < g.individual_sitemaps
        THEN [h EXCEPT !.c = @ + 1]
        ELSE AfterLoop([h EXCEPT !.c = @ + 1, !.method = MethodIndex(g.individual_sitemaps)])

\* faulty variant: the label counts the children fetched, not the children found
ChildStepCountsFetched(g, r) ==
    LET h == CountChild(Get(g, ChildUrl(g.c), r, g.timeout_seconds), r)
    IN  IF g.c < Min(g.individual_sitemaps, ChildLimit)
        THEN [h EXCEPT !.c = @ + 1]
        ELSE AfterLoop([h EXCEPT !.c = @ + 1,
                                 !.method = MethodIndex(Min(g.individual_sitemaps, ChildLimit))])

\* one iteration of the loop over the child sitemaps, and what follows the loop
ChildStep(g, r) ==
    LET h == CountChild(Get(g, ChildUrl(g.c), r, g.timeout_seconds), r)
    IN  IF g.c < Min(g.individual_sitemaps, ChildLimit)
        THEN [h EXCEPT !.c = @ + 1]
        ELSE AfterLoop([h EXCEPT !.c = @ + 1, !.method = MethodIndex(g.individual_sitemaps)])

\* faulty variant: the probe's except clause passes without setting the method
HomepageStepSilent(g, r) ==
    LET h == [Get(g, HomepageUrl, r, HomepageTimeout) EXCEPT !.pc = "returned"]
    IN  IF r.kind = "response" /\ r.status_code = 200
        THEN [h EXCEPT !.total_pages = 1, !.method = Method("Homepage only (estimate)")]
        ELSE h

\* faulty variant: the page is counted before the probe is answered
HomepageStepCountsFirst(g, r) ==
    LET h == [Get(g, HomepageUrl, r, HomepageTimeout) EXCEPT !.pc = "returned", !.total_pages = 1]
    IN  CASE r.kind = "response" /\ r.status_code = 200 ->
                [h EXCEPT !.method = Method("Homepage only (estimate)")]
          [] r.kind = "response" -> h
          [] OTHER -> [h EXCEPT !.method = Method("Domain inaccessible")]

\* the homepage probe
HomepageStep(g, r) ==
    LET h == [Get(g, HomepageUrl, r, HomepageTimeout) EXCEPT !.pc = "returned"]
    IN  CASE r.kind = "response" /\ r.status_code = 200 ->
                [h EXCEPT !.total_pages = 1, !.method = Method("Homepage only (estimate)")]
          [] r.kind = "response" -> h
          [] OTHER -> [h EXCEPT !.method = Method("Domain inaccessible")]

(***************************************************************************)
(* What a call of get_page_count(domain, 20) can hand to its future: every *)
(* way the call can end, over all responses to its GETs.  An outcome keeps *)
(* the returned pair or the raised exception, and whether the call spent   *)
(* more than the 25 s of future.result(timeout=25) in timed-out GETs.      *)
(***************************************************************************)
Final(g) == g.pc \in {"returned", "raised"}

Successors(g) ==
    CASE g.pc = "candidates" ->
             {CandidateStep(g, r) : r \in CandidateResponses(BatchUrls, BatchChildren)}
      [] g.pc = "children" -> {ChildStep(g, r) : r \in ChildResponses(BatchUrls)}
      [] g.pc = "homepage" -> {HomepageStep(g, r) : r \in HomepageResponses}
      [] OTHER -> {g}

Forget(g) == [g EXCEPT !.log = <<>>]

RECURSIVE Runs(_)
Runs(S) ==
    LET T == UNION {{Forget(h) : h \in Successors(g)} : g \in S}
    IN  IF T = S THEN S ELSE Runs(T)

Outcome(g) ==
    [raised |-> g.pc = "raised", pages |-> g.total_pages, method |-> g.method,
     exc |-> g.exc, ran_past_ceiling |-> g.elapsed > TaskCeiling]

TaskOutcomes(domain) == {Outcome(g) : g \in Runs({Call(domain, BatchRequestTimeout)})}

(***************************************************************************)
(* process_domains_batch: the try/except around future.result(timeout=25). *)
(* The future handed out by as_completed is done, so result() returns the  *)
(* task's pair or re-raises the task's exception at once.                  *)
(***************************************************************************)
Record(domain, pages, method) == [Domain |-> domain, Pages |-> pages, Method |-> method]

RecordFor(domain, o) ==
    CASE ~o.raised -> Record(domain, o.pages, o.method)
      [] o.raised /\ o.exc.type = "TimeoutError" -> Record(domain, 0, Method("Timeout"))
      [] OTHER -> Record(domain, 0, MethodError(o.exc.msg))

VARIABLES frame, domains, future, yielded, results, completed, progress, opc,
          url_input, lines, cleaned, unique_domains, run, first_results, server
vars == <<frame, domains, future, yielded, results, completed, progress, opc,
          url_input, lines, cleaned, unique_domains, run, first_results, server>>
batch == <<domains, future, yielded, results, completed, progress, opc>>
input == <<url_input, lines, cleaned, unique_domains>>
rerun == <<run, first_results, server>>

\* the parts of the program a specification leaves untouched
NoInput == url_input = <<>> /\ lines = <<>> /\ cleaned = <<>> /\ unique_domains = <<>>
NoRerun == run = 1 /\ first_results = <<>> /\ server = <<>>

DomainNames == <<"a.com", "b.org", "c.net", "d.io">>
Idle == Call("", BatchRequestTimeout)
OutcomesOf == [d \in {DomainNames[n] : n \in 1..Len(DomainNames)} |-> TaskOutcomes(d)]

(***************************************************************************)
(* One call of get_page_count, one GET per step.                           *)
(***************************************************************************)
InitResolve ==
    /\ frame \in {Call(d, BatchRequestTimeout) : d \in {"", "a.com"}}
    /\ domains = <<>> /\ future = <<>> /\ yielded = {} /\ results = <<>>
    /\ completed = 0 /\ progress = <<>> /\ opc = "idle"
    /\ NoInput /\ NoRerun

GetCandidate ==
    /\ frame.pc = "candidates"
    /\ \E r \in CandidateResponses(MaxUrls, MaxChildren) : frame' = CandidateStep(frame, r)
    /\ UNCHANGED <<input, rerun, batch>>

GetChild ==
    /\ frame.pc = "children"
    /\ \E r \in ChildResponses(MaxUrls) : frame' = ChildStep(frame, r)
    /\ UNCHANGED <<input, rerun, batch>>

GetHomepage ==
    /\ frame.pc = "homepage"
    /\ \E r \in HomepageResponses : frame' = HomepageStep(frame, r)
    /\ UNCHANGED <<input, rerun, batch>>

NextResolve == GetCandidate \/ GetChild \/ GetHomepage

SpecResolve == InitResolve /\ [][NextResolve]_vars

(***************************************************************************)
(* process_domains_batch(domains, progress_callback).  future[f] is the    *)
(* future of domains[f]; yielded holds the futures as_completed has handed *)
(* to the loop body.  opc is the position of the orchestrating thread:     *)
(*   called       before the executor is created                           *)
(*   as_completed in the loop over as_completed(..., timeout=300)          *)
(*   unwinding    TimeoutError raised by as_completed; the with block's    *)
(*                exit runs executor.shutdown(wait=True)                   *)
(*   returned     `return results` reached the caller                      *)
(*   raised       the TimeoutError reached the caller                      *)
(***************************************************************************)
NoOutcome ==
    [raised |-> FALSE, pages |-> 0, method |-> Method(""),
     exc |-> [type |-> "", msg |-> <<>>], ran_past_ceiling |-> FALSE]

Futures == 1..Len(domains)
Running == {f \in Futures : future[f].state = "running"}

InitBatch ==
    /\ frame = Idle
    /\ domains \in {SubSeq(DomainNames, 1, n) : n \in 0..MaxDomains}
    /\ future = <<>> /\ yielded = {} /\ results = <<>>
    /\ completed = 0 /\ progress = <<>> /\ opc = "called"
    /\ NoInput /\ NoRerun

\* executor.submit(get_page_count, domain, 20) for every domain
Submit ==
    /\ opc = "called"
    /\ future' = [f \in Futures |-> [state |-> "queued", outcome |-> NoOutcome]]
    /\ opc' = "as_completed"
    /\ UNCHANGED <<input, rerun, frame, domains, yielded, results, completed, progress>>

\* faulty variant: every submitted work item gets a thread of its own
StartUnbounded(f) ==
    /\ opc \in {"as_completed", "unwinding"}
    /\ future[f].state = "queued"
    /\ \A e \in 1..(f-1) : future[e].state # "queued"
    /\ future' = [future EXCEPT ![f].state = "running"]
    /\ UNCHANGED <<input, rerun, frame, domains, yielded, results, completed, progress, opc>>

\* a worker thread takes the oldest queued work item
Start(f) ==
    /\ opc \in {"as_completed", "unwinding"}
    /\ future[f].state = "queued"
    /\ \A e \in 1..(f-1) : future[e].state # "queued"
    /\ Cardinality(Running) < max_workers
    /\ future' = [future EXCEPT ![f].state = "running"]
    /\ UNCHANGED <<input, rerun, frame, domains, yielded, results, completed, progress, opc>>

\* get_page_count returns or raises in the worker; the future becomes done
Finish(f) ==
    /\ opc \in {"as_completed", "unwinding"}
    /\ future[f].state = "running"
    /\ \E o \in OutcomesOf[domains[f]] :
          future' = [future EXCEPT ![f] = [state |-> "done", outcome |-> o]]
    /\ UNCHANGED <<input, rerun, frame, domains, yielded, results, completed, progress, opc>>

\* faulty variant: the futures are waited for in submission order
CollectInSubmissionOrder(f) ==
    /\ opc = "as_completed"
    /\ f \notin yielded
    /\ \A e \in 1..(f-1) : e \in yielded
    /\ future[f].state = "done"
    /\ yielded' = yielded \cup {f}
    /\ results' = Append(results, RecordFor(domains[f], future[f].outcome))
    /\ completed' = completed + 1
    /\ progress' = Append(progress, <<completed + 1, Len(domains)>>)
    /\ UNCHANGED <<input, rerun, frame, domains, future, opc>>

\* as_completed yields a done future; the loop body records it
Collect(f) ==
    /\ opc = "as_completed"
    /\ f \notin yielded
    /\ future[f].state = "done"
    /\ yielded' = yielded \cup {f}
    /\ results' = Append(results, RecordFor(domains[f], future[f].outcome))
    /\ completed' = completed + 1
    /\ progress' = Append(progress, <<completed + 1, Len(domains)>>)
    /\ UNCHANGED <<input, rerun, frame, domains, future, opc>>

\* as_completed is exhausted; the with block exits; return results
Return ==
    /\ opc = "as_completed"
    /\ yielded = Futures
    /\ opc' = "returned"
    /\ UNCHANGED <<input, rerun, frame, domains, future, yielded, results, completed, progress>>

\* 300 s have passed and as_completed still has pending futures: TimeoutError
Expire ==
    /\ opc = "as_completed"
    /\ yielded # Futures
    /\ opc' = "unwinding"
    /\ UNCHANGED <<input, rerun, frame, domains, future, yielded, results, completed, progress>>

\* faulty variant: the executor is left with shutdown(wait=False)
PropagateWithoutJoin ==
    /\ opc = "unwinding"
    /\ opc' = "raised"
    /\ UNCHANGED <<input, rerun, frame, domains, future, yielded, results, completed, progress>>

\* shutdown(wait=True) has joined the workers; the TimeoutError propagates
Propagate ==
    /\ opc = "unwinding"
    /\ \A f \in Futures : future[f].state = "done"
    /\ opc' = "raised"
    /\ UNCHANGED <<input, rerun, frame, domains, future, yielded, results, completed, progress>>

NextBatch ==
    \/ Submit
    \/ \E f \in Futures : Start(f)
    \/ \E f \in Futures : Finish(f)
    \/ \E f \in Futures : Collect(f)
    \/ Return
    \/ Expire
    \/ Propagate

SpecBatch == InitBatch /\ [][NextBatch]_vars

(***************************************************************************)
(* One call of get_page_count against a server whose sitemap indexes list  *)
(* up to ChildLimit + MaxExtraChildren children.  A candidate fails, is a  *)
(* leaf sitemap or is such an index; a child times out or is a sitemap     *)
(* with one url.                                                           *)
(***************************************************************************)
LongIndexes ==
    {Http(200, TRUE, lc, lc, 0) : lc \in 1..(ChildLimit + MaxExtraChildren)}
        \cup {Http(200, TRUE, lc + 1, lc, 0) : lc \in {0, ChildLimit + MaxExtraChildren}}
ExpandCandidateResponses ==
    {Raise("RequestException", <<>>)} \cup UrlSets(1) \cup LongIndexes
ExpandChildResponses == {Raise("Timeout", <<>>), Http(200, TRUE, 0, 0, 1)}

InitExpand ==
    /\ frame = Call("a.com", BatchRequestTimeout)
    /\ domains = <<>> /\ future = <<>> /\ yielded = {} /\ results = <<>>
    /\ completed = 0 /\ progress = <<>> /\ opc = "idle"
    /\ NoInput /\ NoRerun

GetExpandCandidate ==
    /\ frame.pc = "candidates"
    /\ \E r \in ExpandCandidateResponses : frame' = CandidateStep(frame, r)
    /\ UNCHANGED <<input, rerun, batch>>

GetExpandChild ==
    /\ frame.pc = "children"
    /\ \E r \in ExpandChildResponses : frame' = ChildStep(frame, r)
    /\ UNCHANGED <<input, rerun, batch>>

NextExpand == GetExpandCandidate \/ GetExpandChild \/ GetHomepage

SpecExpand == InitExpand /\ [][NextExpand]_vars

(***************************************************************************)
(* The worker pool under more domains than workers.  The orchestrating     *)
(* thread stays blocked in as_completed until the overall timeout: what    *)
(* the loop body does with a done future has no part in the guards of the  *)
(* workers, so the states of the futures reached here are those of every   *)
(* run.  Every task resolves to the same pair.                             *)
(***************************************************************************)
PoolNames ==
    <<"p01.com", "p02.com", "p03.com", "p04.com", "p05.com", "p06.com", "p07.com",
      "p08.com", "p09.com", "p10.com", "p11.com", "p12.com", "p13.com", "p14.com">>

PoolOutcomes ==
    {o \in OutcomesOf["a.com"] :
        ~o.raised /\ ~o.ran_past_ceiling /\ o.pages = 1 /\ o.method = Method("Single sitemap")}

InitPool ==
    /\ frame = Idle
    /\ domains \in {SubSeq(PoolNames, 1, n) :
                        n \in (max_workers + 1)..(max_workers + MaxExtraTasks)}
    /\ future = <<>> /\ yielded = {} /\ results = <<>>
    /\ completed = 0 /\ progress = <<>> /\ opc = "called"
    /\ NoInput /\ NoRerun

FinishPool(f) ==
    /\ opc \in {"as_completed", "unwinding"}
    /\ future[f].state = "running"
    /\ \E o \in PoolOutcomes :
          future' = [future EXCEPT ![f] = [state |-> "done", outcome |-> o]]
    /\ UNCHANGED <<input, rerun, frame, domains, yielded, results, completed, progress, opc>>

NextPool ==
    \/ Submit
    \/ \E f \in Futures : Start(f)
    \/ \E f \in Futures : FinishPool(f)
    \/ Expire
    \/ Propagate

SpecPool == InitPool /\ [][NextPool]_vars

(***************************************************************************)
(* Two runs of process_domains_batch on the same list against a static     *)
(* server.  server[f] is the site of domains[f]: the response to each of   *)
(* its four candidate URLs, to its child sitemaps and to its homepage, the *)
(* same in both runs.  first_results keeps what the first run returned.    *)
(***************************************************************************)
Sites ==
    {[candidate |-> <<Http(404, FALSE, 0, 0, 0), Http(200, TRUE, 2, 2, 0),
                      Http(200, TRUE, 0, 0, 1), Http(200, TRUE, 0, 0, 1)>>,
      child |-> Http(200, TRUE, 0, 0, 1), homepage |-> Http(200, FALSE, 0, 0, 0)],
     [candidate |-> <<Raise("Timeout", <<>>), Raise("Timeout", <<>>),
                      Raise("Timeout", <<>>), Raise("Timeout", <<>>)>>,
      child |-> Raise("Timeout", <<>>), homepage |-> Http(200, FALSE, 0, 0, 0)],
     [candidate |-> <<Raise("RequestException", <<>>), Raise("Exception", Text(MaxMsgLen)),
                      Http(200, TRUE, 0, 0, 1), Http(200, TRUE, 0, 0, 1)>>,
      child |-> Http(404, FALSE, 0, 0, 0), homepage |-> Http(200, FALSE, 0, 0, 0)],
     [candidate |-> <<Http(404, FALSE, 0, 0, 0), Http(200, FALSE, 0, 0, 0),
                      Http(200, TRUE, 0, 0, 0), Http(200, TRUE, 0, 0, 1)>>,
      child |-> Http(404, FALSE, 0, 0, 0), homepage |-> Raise("Timeout", <<>>)]}

\* get_page_count(domain, 20) run to its end against one site
RECURSIVE Resolve(_, _)
Resolve(g, site) ==
    CASE g.pc = "candidates" -> Resolve(Forget(CandidateStep(g, site.candidate[g.k])), site)
      [] g.pc = "children" -> Resolve(Forget(ChildStep(g, site.child)), site)
      [] g.pc = "homepage" -> Resolve(Forget(HomepageStep(g, site.homepage)), site)
      [] OTHER -> g

\* faulty variant: the list of results outlives the call
ReusedResults(old) == old
\* results = []
FreshResults(old) == <<>>

InitTwice ==
    /\ frame = Idle
    /\ domains \in {SubSeq(DomainNames, 1, n) : n \in 1..MaxDomains}
    /\ server \in [1..Len(domains) -> Sites]
    /\ run = 1 /\ first_results = <<>>
    /\ future = <<>> /\ yielded = {} /\ results = <<>>
    /\ completed = 0 /\ progress = <<>> /\ opc = "called"
    /\ NoInput

\* get_page_count returns or raises in the worker, as the site of its domain answers
FinishStatic(f) ==
    /\ opc \in {"as_completed", "unwinding"}
    /\ future[f].state = "running"
    /\ future' = [future EXCEPT ![f] =
                     [state |-> "done",
                      outcome |-> Outcome(Resolve(Call(domains[f], BatchRequestTimeout), server[f]))]]
    /\ UNCHANGED <<input, rerun, frame, domains, yielded, results, completed, progress, opc>>

\* the caller calls process_domains_batch(unique_domains, update_progress) again
Again ==
    /\ opc = "returned"
    /\ run = 1
    /\ run' = 2
    /\ first_results' = results
    /\ results' = FreshResults(results)
    /\ future' = <<>> /\ yielded' = {} /\ completed' = 0 /\ progress' = <<>>
    /\ opc' = "called"
    /\ UNCHANGED <<input, frame, domains, server>>

NextTwice ==
    \/ Submit
    \/ \E f \in Futures : Start(f)
    \/ \E f \in Futures : FinishStatic(f)
    \/ \E f \in Futures : Collect(f)
    \/ Return
    \/ Expire
    \/ Propagate
    \/ Again

SpecTwice == InitTwice /\ [][NextTwice]_vars

(***************************************************************************)
(* Text.  A string is a sequence of one-character strings; None is a value *)
(* that is no string.                                                      *)
(***************************************************************************)
None == <<"None">>
UpperCase == <<"A", "H", "T", "P", "S", "W">>
LowerCase == <<"a", "h", "t", "p", "s", "w">>

\* str.lower()
LowerChar(ch) ==
    IF \E n \in 1..Len(UpperCase) : UpperCase[n] = ch
    THEN LowerCase[CHOOSE n \in 1..Len(UpperCase) : UpperCase[n] = ch]
    ELSE ch
lower(s) == [n \in 1..Len(s) |-> LowerChar(s[n])]

\* str.strip(): leading and trailing whitespace removed
RECURSIVE lstrip(_, _)
lstrip(s, ch) == IF s # <<>> /\ Head(s) = ch THEN lstrip(Tail(s), ch) ELSE s
RECURSIVE rstrip(_, _)
rstrip(s, ch) ==
    IF s # <<>> /\ s[Len(s)] = ch THEN rstrip(SubSeq(s, 1, Len(s) - 1), ch) ELSE s
strip(s) == rstrip(lstrip(s, " "), " ")

\* str.startswith(prefix)
startswith(s, prefix) == Len(s) >= Len(prefix) /\ SubSeq(s, 1, Len(prefix)) = prefix

\* urlparse(url).netloc of a url that starts with scheme://: the text between
\* the // and the next /, ? or #
RECURSIVE UpToDelimiter(_)
UpToDelimiter(s) ==
    IF s = <<>> \/ Head(s) \in {"/", "?", "#"} THEN <<>>
    ELSE <<Head(s)>> \o UpToDelimiter(Tail(s))
AfterScheme(s) ==
    LET n == CHOOSE n \in 1..Len(s) : s[n] = ":"
    IN  SubSeq(s, n + 3, Len(s))
netloc(url) == UpToDelimiter(AfterScheme(url))

\* re.sub(r'^www\.', '', s): one leading www. removed
sub_www(s) == IF startswith(s, <<"w", "w", "w", ".">>) THEN SubSeq(s, 5, Len(s)) ELSE s

clean_domain(url_or_domain) ==
    IF url_or_domain = <<>> THEN None
    ELSE LET stripped == strip(url_or_domain)
             domain == IF \/ startswith(stripped, <<"h", "t", "t", "p", ":", "/", "/">>)
                          \/ startswith(stripped, <<"h", "t", "t", "p", "s", ":", "/", "/">>)
                       THEN netloc(stripped)
                       ELSE stripped
             cleaned_domain == rstrip(sub_www(lower(domain)), "/")
         IN  IF cleaned_domain # <<>> THEN cleaned_domain ELSE None

\* list(dict.fromkeys(s)): the keys of s in the order of their first insertion
\* faulty variant: a key moves to the place of its last occurrence
RECURSIVE fromkeys_last(_)
fromkeys_last(s) ==
    IF s = <<>> THEN <<>>
    ELSE IF \E n \in 2..Len(s) : s[n] = Head(s)
         THEN fromkeys_last(Tail(s))
         ELSE <<Head(s)>> \o fromkeys_last(Tail(s))
RECURSIVE fromkeys(_)
fromkeys(s) ==
    IF s = <<>> THEN <<>>
    ELSE LET keys == fromkeys(SubSeq(s, 1, Len(s) - 1))
             key == s[Len(s)]
         IN  IF \E n \in 1..Len(keys) : keys[n] = key THEN keys ELSE Append(keys, key)

(***************************************************************************)
(* The text area and the button.  url_input is the text as the sequence of *)
(* its lines.  Either one line put together from padding, a scheme, www.   *)
(* prefixes, a host and a tail, or a few lines out of a small set.         *)
(***************************************************************************)
RECURSIVE Www(_)
Www(n) == IF n = 0 THEN <<>> ELSE <<"w", "w", "w", ".">> \o Www(n - 1)
Pads == {<<>>, <<" ">>}
Schemes ==
    {<<>>, <<"h", "t", "t", "p", ":", "/", "/">>, <<"h", "t", "t", "p", "s", ":", "/", "/">>,
     <<"H", "T", "T", "P", ":", "/", "/">>}
Hosts == {<<>>, <<"a", ".", "i", "o">>, <<"A", ".", "i", "o">>}
Tails == {<<>>, <<"/">>, <<"/", "/">>, <<"/", "p">>, <<"/", "p", "/">>}
RawLines ==
    {pad \o scheme \o Www(n) \o host \o tail \o pad :
        pad \in Pads, scheme \in Schemes, n \in 0..MaxWww, host \in Hosts, tail \in Tails}
FewLines ==
    {<<"a", ".", "i", "o">>, <<"w", "w", "w", ".", "a", ".", "i", "o">>,
     <<" ", "h", "t", "t", "p", "s", ":", "/", "/", "A", ".", "i", "o", "/">>,
     <<"b", ".", "i", "o">>, <<" ">>, <<"w", "w", "w", ".">>}

InitNormalize ==
    /\ url_input \in {<<l>> : l \in RawLines}
                        \cup UNION {[1..n -> FewLines] : n \in 0..MaxLines}
    /\ lines = <<>> /\ cleaned = <<>> /\ unique_domains = <<>>
    /\ frame = Idle
    /\ domains = <<>> /\ future = <<>> /\ yielded = {} /\ results = <<>>
    /\ completed = 0 /\ progress = <<>> /\ opc = "clicked"
    /\ NoRerun

\* lines = [line.strip() for line in url_input.split('\n') if line.strip()]
SplitLines ==
    /\ opc = "clicked"
    /\ url_input # <<>>
    /\ LET nonblank(l) == strip(l) # <<>>
           kept == SelectSeq(url_input, nonblank)
       IN  lines' = [n \in 1..Len(kept) |-> strip(kept[n])]
    /\ opc' = "lines"
    /\ UNCHANGED <<rerun, frame, url_input, cleaned, unique_domains,
                   domains, future, yielded, results, completed, progress>>

\* domains = [clean_domain(line) for line in lines]; domains = [d for d in domains if d]
CleanLines ==
    /\ opc = "lines"
    /\ LET truthy(d) == d # None /\ d # <<>>
       IN  cleaned' = SelectSeq([n \in 1..Len(lines) |-> clean_domain(lines[n])], truthy)
    /\ opc' = "domains"
    /\ UNCHANGED <<rerun, frame, url_input, lines, unique_domains,
                   domains, future, yielded, results, completed, progress>>

\* unique_domains = list(dict.fromkeys(domains))
Dedup ==
    /\ opc = "domains"
    /\ unique_domains' = fromkeys(cleaned)
    /\ opc' = "unique_domains"
    /\ UNCHANGED <<rerun, frame, url_input, lines, cleaned,
                   domains, future, yielded, results, completed, progress>>

NextNormalize == SplitLines \/ CleanLines \/ Dedup

SpecNormalize == InitNormalize /\ [][NextNormalize]_vars

(***************************************************************************)
(* Vocabulary of the properties.                                           *)
(***************************************************************************)
Parsed(r) == r.kind = "response" /\ r.status_code = 200 /\ r.wellformed
IsLeafDocument(r) == Parsed(r) /\ r.sitemaps = 0
IsIndexDocument(r) == Parsed(r) /\ r.sitemaps > 0
\* a candidate or child GET that fails: network error, timeout, non-200, malformed XML
FailedGet(r) ==
    \/ r.kind \in {"RequestException", "Timeout"}
    \/ r.kind = "response" /\ ~Parsed(r)

Requests(kind) == {i \in 1..Len(frame.log) : frame.log[i].url.kind = kind}
Returned == frame.pc = "returned" /\ frame.domain # ""
AllCandidatesFailed ==
    /\ Cardinality(Requests("candidate")) = NumCandidates
    /\ \A i \in Requests("candidate") : FailedGet(frame.log[i].resp)
HomepageAnswer == frame.log[Len(frame.log)].resp
ProbeRan == Requests("homepage") # {}

RECURSIVE SumOfParsedChildren(_)
SumOfParsedChildren(l) ==
    IF l = <<>> THEN 0
    ELSE (IF Head(l).url.kind = "child" /\ Parsed(Head(l).resp) THEN Head(l).resp.urls ELSE 0)
            + SumOfParsedChildren(Tail(l))

ClosedMethodSet ==
    {"Single sitemap", "Sitemap index (N sitemaps)", "Homepage only (estimate)",
     "Domain inaccessible", "Timeout", "Error: "}

\* the record process_domains_batch makes of the finished call
RecordOfCall == RecordFor(frame.domain, Outcome(frame))

(***************************************************************************)
(* C6 (as stated): every record made for a normalized domain has a         *)
(* non-negative page count and a method of the closed set {Single sitemap, *)
(* Sitemap index (N sitemaps), Homepage only (estimate), Domain            *)
(* inaccessible, Timeout, Error: ...}, for every combination of responses. *)
(***************************************************************************)
C6_MethodInClosedSet ==
    (Final(frame) /\ frame.domain # "") =>
        /\ RecordOfCall.Pages >= 0
        /\ RecordOfCall.Method.label \in ClosedMethodSet

(***************************************************************************)
(* C6 (amended): every record made for a normalized domain has a           *)
(* non-negative page count and a method of the closed set extended by      *)
(* "No sitemap found".                                                     *)
(***************************************************************************)
C6_MethodInExtendedSet ==
    (Final(frame) /\ frame.domain # "") =>
        /\ RecordOfCall.Pages >= 0
        /\ RecordOfCall.Method.label \in ClosedMethodSet \cup {"No sitemap found"}

C6_Witness ==
    /\ Returned
    /\ RecordOfCall = Record("a.com", 0, Method("No sitemap found"))

(***************************************************************************)
(* C7 (as stated): when all four candidates fail, get_page_count returns   *)
(* (1, Homepage only (estimate)) if the homepage GET answers 200 and       *)
(* (0, Domain inaccessible) for any failure of the probe: network error,   *)
(* timeout or non-200 status.                                              *)
(***************************************************************************)
C7_AnyProbeFailureInaccessible ==
    (Returned /\ AllCandidatesFailed) =>
        /\ ProbeRan
        /\ IF HomepageAnswer.kind = "response" /\ HomepageAnswer.status_code = 200
           THEN frame.total_pages = 1 /\ frame.method = Method("Homepage only (estimate)")
           ELSE frame.total_pages = 0 /\ frame.method = Method("Domain inaccessible")

(***************************************************************************)
(* C7 (amended): when all four candidates fail, get_page_count returns     *)
(* (1, Homepage only (estimate)) if the homepage GET answers 200,          *)
(* (0, Domain inaccessible) if the homepage GET raises (network error,     *)
(* timeout or any other exception), and (0, No sitemap found) if it        *)
(* answers with a non-200 status.                                          *)
(***************************************************************************)
C7_ProbeOutcome ==
    (Returned /\ AllCandidatesFailed) =>
        /\ ProbeRan
        /\ CASE HomepageAnswer.kind = "response" /\ HomepageAnswer.status_code = 200 ->
                    frame.total_pages = 1 /\ frame.method = Method("Homepage only (estimate)")
             [] HomepageAnswer.kind = "response" /\ HomepageAnswer.status_code # 200 ->
                    frame.total_pages = 0 /\ frame.method = Method("No sitemap found")
             [] OTHER ->
                    frame.total_pages = 0 /\ frame.method = Method("Domain inaccessible")

C7_Witness ==
    /\ Returned /\ AllCandidatesFailed /\ ProbeRan
    /\ HomepageAnswer.kind = "response" /\ HomepageAnswer.status_code = 404
    /\ frame.method = Method("No sitemap found")

(***************************************************************************)
(* C8: the candidates are requested in the fixed order bare/sitemap.xml,   *)
(* www/sitemap.xml, bare/sitemap_index.xml, www/sitemap_index.xml; a       *)
(* failed candidate is skipped and never requested again; once a candidate *)
(* answers 200 with well-formed XML no later candidate is requested.       *)
(***************************************************************************)
C8_CandidateOrder ==
    /\ \A i \in Requests("candidate") :
          /\ i <= NumCandidates
          /\ frame.log[i].url.www = (i \in {2, 4})
          /\ frame.log[i].url.path = (IF i <= 2 THEN "/sitemap.xml" ELSE "/sitemap_index.xml")
          /\ \A j \in 1..(i-1) :
                /\ frame.log[j].url.kind = "candidate"
                /\ frame.log[j].url # frame.log[i].url
                /\ FailedGet(frame.log[j].resp)
    /\ (Returned /\ \A i \in Requests("candidate") : FailedGet(frame.log[i].resp))
            => Cardinality(Requests("candidate")) = NumCandidates

C8_Witness ==
    /\ Returned
    /\ Requests("candidate") = {1, 2, 3}
    /\ FailedGet(frame.log[1].resp) /\ FailedGet(frame.log[2].resp)
    /\ Parsed(frame.log[3].resp)

(***************************************************************************)
(* C9 (as stated): when the first candidate that parses is a leaf sitemap  *)
(* with n url elements, get_page_count returns (n, Single sitemap), for    *)
(* every n.                                                                *)
(***************************************************************************)
C9_LeafCountAnyN ==
    \A i \in Requests("candidate") :
        (Returned /\ IsLeafDocument(frame.log[i].resp)) =>
            /\ frame.total_pages = frame.log[i].resp.urls
            /\ frame.method = Method("Single sitemap")

(***************************************************************************)
(* C9 (amended): when the first candidate that parses is a leaf sitemap    *)
(* with n >= 1 url elements, get_page_count returns (n, Single sitemap);   *)
(* with n = 0 the homepage probe runs and the call returns (1, Homepage    *)
(* only (estimate)) if it answers 200, (0, Domain inaccessible) if it      *)
(* raises and (0, Single sitemap) if it answers with another status.       *)
(***************************************************************************)
C9_LeafCount ==
    \A i \in Requests("candidate") :
        (Returned /\ IsLeafDocument(frame.log[i].resp)) =>
            IF frame.log[i].resp.urls >= 1
            THEN /\ frame.total_pages = frame.log[i].resp.urls
                 /\ frame.method = Method("Single sitemap")
                 /\ ~ProbeRan
            ELSE /\ ProbeRan
                 /\ CASE HomepageAnswer.kind = "response" /\ HomepageAnswer.status_code = 200 ->
                            /\ frame.total_pages = 1
                            /\ frame.method = Method("Homepage only (estimate)")
                      [] HomepageAnswer.kind = "response" /\ HomepageAnswer.status_code # 200 ->
                            frame.total_pages = 0 /\ frame.method = Method("Single sitemap")
                      [] OTHER ->
                            frame.total_pages = 0 /\ frame.method = Method("Domain inaccessible")

C9_Witness ==
    /\ Returned
    /\ Requests("candidate") = {1, 2}
    /\ IsLeafDocument(frame.log[2].resp) /\ frame.log[2].resp.urls = MaxUrls
    /\ frame.total_pages = MaxUrls

(***************************************************************************)
(* C10 (as stated): when the winning candidate is a sitemap index, the     *)
(* page count returned is the sum of the url counts of the fetched child   *)
(* sitemaps that answered 200 with well-formed XML; a failing child adds   *)
(* 0, does not abort the expansion and does not keep later children from   *)
(* being fetched and counted.                                              *)
(***************************************************************************)
C10_IndexSumAlways ==
    \A i \in Requests("candidate") :
        (Returned /\ IsIndexDocument(frame.log[i].resp)) =>
            /\ Cardinality(Requests("child")) = Min(frame.log[i].resp.locs, ChildLimit)
            /\ frame.total_pages = SumOfParsedChildren(frame.log)

(***************************************************************************)
(* C10 (amended): when the winning candidate is a sitemap index, every one *)
(* of its first 10 child loc URLs is fetched whatever the earlier children *)
(* answered, and the page count returned is the sum of the url counts of   *)
(* the children that answered 200 with well-formed XML when that sum is    *)
(* positive; when the sum is 0 the homepage probe runs and the count is 1  *)
(* if the homepage answers 200 and 0 otherwise.                            *)
(***************************************************************************)
C10_IndexSum ==
    \A i \in Requests("candidate") :
        (Returned /\ IsIndexDocument(frame.log[i].resp)) =>
            /\ Cardinality(Requests("child")) = Min(frame.log[i].resp.locs, ChildLimit)
            /\ \A j \in Requests("child") : frame.log[j].url = ChildUrl(j - i)
            /\ IF SumOfParsedChildren(frame.log) > 0
               THEN frame.total_pages = SumOfParsedChildren(frame.log) /\ ~ProbeRan
               ELSE /\ ProbeRan
                    /\ frame.total_pages =
                          (IF HomepageAnswer.kind = "response" /\ HomepageAnswer.status_code = 200
                           THEN 1 ELSE 0)

C10_Witness ==
    /\ Returned
    /\ Requests("candidate") = {1} /\ IsIndexDocument(frame.log[1].resp)
    /\ Requests("child") = {2, 3}
    /\ FailedGet(frame.log[2].resp)
    /\ Parsed(frame.log[3].resp) /\ frame.log[3].resp.urls = MaxUrls
    /\ frame.total_pages = MaxUrls

(***************************************************************************)
(* Properties of process_domains_batch.                                    *)
(***************************************************************************)
RecordsOf(f) == {i \in 1..Len(results) : results[i].Domain = domains[f]}
BackAtCaller == opc \in {"returned", "raised"}
Faulted(f) ==
    /\ future[f].state = "done"
    /\ future[f].outcome.raised
    /\ future[f].outcome.exc.type # "TimeoutError"

(***************************************************************************)
(* C1: for every list of unique domains and every combination of           *)
(* per-domain outcomes, batch deadline expiry included, the caller         *)
(* receives a result list with exactly one record per input domain.        *)
(***************************************************************************)
C1_OneRecordPerDomain ==
    BackAtCaller =>
        /\ opc = "returned"
        /\ Len(results) = Len(domains)
        /\ \A f \in Futures : Cardinality(RecordsOf(f)) = 1

(***************************************************************************)
(* C2: when the whole-batch deadline expires with tasks outstanding,       *)
(* process_domains_batch returns normally with the records made so far;    *)
(* no exception propagates out of it.                                      *)
(***************************************************************************)
C2_NoExceptionPropagates ==
    /\ opc # "raised"
    /\ (BackAtCaller /\ yielded # Futures) => opc = "returned"

(***************************************************************************)
(* C3: a domain whose task runs past the 25 s per-task ceiling is recorded *)
(* with Method Timeout and Pages 0 (a record is made only of a finished    *)
(* task, so the record of such a task is made after the ceiling).          *)
(***************************************************************************)
C3_SlowTaskRecordedTimeout ==
    \A f \in yielded :
        (future[f].outcome.ran_past_ceiling /\ ~future[f].outcome.raised) =>
            \E i \in RecordsOf(f) :
                results[i].Pages = 0 /\ results[i].Method = Method("Timeout")

C5_FaultRecorded ==
    /\ \A f \in yielded :
          Faulted(f) =>
              \E i \in RecordsOf(f) :
                  /\ results[i].Pages = 0
                  /\ results[i].Method.label = "Error: "
                  /\ Len(results[i].Method.msg) = Min(Len(future[f].outcome.exc.msg), 50)
                  /\ \A c \in 1..Len(results[i].Method.msg) :
                        results[i].Method.msg[c] = future[f].outcome.exc.msg[c]
    /\ opc \in {"unwinding", "raised"} => yielded # Futures

C5_Witness ==
    /\ opc = "returned"
    /\ Len(results) = 2
    /\ Faulted(1) /\ Len(future[1].outcome.exc.msg) > 50
    /\ results[1].Domain = domains[1] /\ Len(results[1].Method.msg) = 50
    /\ results[2].Method = Method("Single sitemap")

(***************************************************************************)
(* C11: for a sitemap index listing more than 10 child loc URLs,           *)
(* get_page_count requests only the first 10 children, in document order;  *)
(* the 11th and later children are never requested and the returned count  *)
(* comes from those first 10 alone.                                        *)
(***************************************************************************)
C11_FirstTenChildren ==
    /\ \A j \in Requests("child") : frame.log[j].url.k <= 10
    /\ \A i \in Requests("candidate") :
          (Returned /\ IsIndexDocument(frame.log[i].resp) /\ frame.log[i].resp.locs > 10) =>
              /\ Requests("child") = (i + 1)..(i + 10)
              /\ \A j \in Requests("child") : frame.log[j].url = ChildUrl(j - i)
              /\ frame.total_pages \in
                    (IF SumOfParsedChildren(frame.log) > 0
                     THEN {SumOfParsedChildren(frame.log)} ELSE {0, 1})

C11_Witness ==
    /\ Returned
    /\ Requests("candidate") = {1}
    /\ frame.log[1].resp.locs = 11
    /\ Cardinality(Requests("child")) = 10
    /\ frame.total_pages = 10

(***************************************************************************)
(* C12 (as stated): whenever the winning candidate is a sitemap index with *)
(* N child loc entries, the method returned is Sitemap index (N sitemaps); *)
(* failures of any number of children, all of them included, and the       *)
(* 10-child fetch bound do not change the label.                           *)
(***************************************************************************)
C12_IndexLabelAlways ==
    \A i \in Requests("candidate") :
        (Returned /\ IsIndexDocument(frame.log[i].resp)) =>
            /\ frame.method.label = "Sitemap index (N sitemaps)"
            /\ frame.method.n = frame.log[i].resp.locs

(***************************************************************************)
(* C12 (amended): whenever the winning candidate is a sitemap index with N *)
(* child loc entries and the children fetched count at least one url, the  *)
(* method returned is Sitemap index (N sitemaps), whatever the number of   *)
(* failed children and whether or not N exceeds the 10-child fetch bound;  *)
(* when the children count no url (all failed, or none listed) the         *)
(* homepage probe runs and the method is Homepage only (estimate) if it    *)
(* answers 200, Domain inaccessible if it raises, and stays Sitemap index  *)
(* (N sitemaps) if it answers with another status.                         *)
(***************************************************************************)
C12_IndexLabel ==
    \A i \in Requests("candidate") :
        (Returned /\ IsIndexDocument(frame.log[i].resp)) =>
            CASE SumOfParsedChildren(frame.log) = 0
                    /\ HomepageAnswer.kind = "response" /\ HomepageAnswer.status_code = 200 ->
                        frame.method = Method("Homepage only (estimate)")
              [] SumOfParsedChildren(frame.log) = 0 /\ HomepageAnswer.kind # "response" ->
                        frame.method = Method("Domain inaccessible")
              [] OTHER ->
                        /\ frame.method.label = "Sitemap index (N sitemaps)"
                        /\ frame.method.n = frame.log[i].resp.locs

C12_Witness ==
    /\ Returned
    /\ Requests("candidate") = {1, 2}
    /\ IsIndexDocument(frame.log[2].resp) /\ frame.log[2].resp.locs > 10
    /\ \E j \in Requests("child") : FailedGet(frame.log[j].resp)
    /\ \E j \in Requests("child") : Parsed(frame.log[j].resp)
    /\ frame.method.n = frame.log[2].resp.locs

(***************************************************************************)
(* C13: progress_callback is invoked exactly once after each task settles, *)
(* with completed equal to the number of records appended so far (1, 2,    *)
(* ... in steps of 1) and total equal to the number of submitted domains;  *)
(* when all tasks have settled the last call is (N, N).  Stated of the     *)
(* moment control is back at the caller: one call per settled task.        *)
(***************************************************************************)
C13_ProgressPerSettledTask ==
    /\ Len(progress) = completed /\ Len(progress) = Len(results)
    /\ \A i \in 1..Len(progress) : progress[i] = <<i, Len(domains)>>
    /\ BackAtCaller =>
          /\ Len(progress) = Cardinality({f \in Futures : future[f].state = "done"})
          /\ (Futures # {} /\ \A f \in Futures : future[f].state = "done") =>
                progress[Len(progress)] = <<Len(domains), Len(domains)>>

(***************************************************************************)
(* C18: when control leaves process_domains_batch, by return or by a       *)
(* propagating exception, no submitted task is still running or queued.    *)
(***************************************************************************)
C18_NoTaskInFlightAtExit ==
    BackAtCaller => \A f \in Futures : future[f].state = "done"

C18_Witness ==
    /\ opc = "raised"
    /\ Len(domains) = 2
    /\ yielded = {}
    /\ \A f \in Futures : future[f].state = "done"

(***************************************************************************)
(* C14: at every moment of a batch run at most 10 resolution tasks are     *)
(* executing; each domain is submitted as exactly one task; a task beyond  *)
(* the tenth has started only if a task submitted before it has finished.  *)
(***************************************************************************)
C14_AtMostTenRunning ==
    opc # "called" =>
        /\ Cardinality(Running) <= 10
        /\ DOMAIN future = 1..Len(domains)
        /\ \A d \in {domains[f] : f \in Futures} :
              Cardinality({f \in Futures : domains[f] = d}) = 1
        /\ \A f \in Futures :
              (f > 10 /\ future[f].state # "queued") =>
                  \E e \in 1..(f - 1) : future[e].state = "done"

C14_Witness ==
    /\ Len(domains) > 10
    /\ future # <<>>
    /\ future[11].state = "running"
    /\ Cardinality(Running) = 10

(***************************************************************************)
(* C15: for every raw input line clean_domain returns either nothing or a  *)
(* canonical Domain: a non-empty lower-case string with no http or https   *)
(* scheme prefix, not beginning with www. and not ending with a slash.     *)
(***************************************************************************)
IsLowerCase(d) == \A n \in 1..Len(d) : \A k \in 1..Len(UpperCase) : d[n] # UpperCase[k]
HasSchemePrefix(d) ==
    \/ startswith(d, <<"h", "t", "t", "p", ":", "/", "/">>)
    \/ startswith(d, <<"h", "t", "t", "p", "s", ":", "/", "/">>)
HasWwwPrefix(d) == startswith(d, <<"w", "w", "w", ".">>)
Canonical(d) ==
    /\ d # None /\ d # <<>>
    /\ IsLowerCase(d)
    /\ ~HasSchemePrefix(d)
    /\ ~HasWwwPrefix(d)
    /\ d[Len(d)] # "/"

C15_CleanDomainCanonical ==
    opc \in {"domains", "unique_domains"} =>
        /\ Len(cleaned) <= Len(lines)
        /\ \A n \in 1..Len(cleaned) : Canonical(cleaned[n])

(***************************************************************************)
(* C16: the dedup turns the sequence of normalized domains into a sequence *)
(* without duplicates that holds every distinct domain exactly once, in    *)
(* the order of first occurrence; the lines that normalize to nothing are  *)
(* dropped, so two lines that normalize to the same domain give one entry. *)
(***************************************************************************)
FirstIndex(s, x) == CHOOSE n \in 1..Len(s) : s[n] = x /\ \A m \in 1..(n - 1) : s[m] # x
Elements(s) == {s[n] : n \in 1..Len(s)}

C16_DedupFirstOccurrence ==
    /\ opc \in {"domains", "unique_domains"} =>
          /\ None \notin Elements(cleaned)
          /\ Len(cleaned) = Cardinality({n \in 1..Len(lines) : clean_domain(lines[n]) # None})
          /\ Elements(cleaned) = {clean_domain(lines[n]) : n \in 1..Len(lines)} \ {None}
    /\ opc = "unique_domains" =>
          /\ Elements(unique_domains) = Elements(cleaned)
          /\ \A d \in Elements(cleaned) :
                Cardinality({n \in 1..Len(unique_domains) : unique_domains[n] = d}) = 1
          /\ \A m, n \in 1..Len(unique_domains) :
                m < n => FirstIndex(cleaned, unique_domains[m]) < FirstIndex(cleaned, unique_domains[n])

C16_Witness ==
    /\ opc = "unique_domains"
    /\ Len(url_input) = 3 /\ Len(lines) = 2 /\ Len(cleaned) = 2
    /\ lines[1] # lines[2]
    /\ Len(unique_domains) = 1

(***************************************************************************)
(* C19: one call of get_page_count issues at most 15 GETs: at most 4       *)
(* candidates, at most 10 children, at most 1 homepage probe; a call that  *)
(* has not ended has issued fewer than 15 and its next GET can be          *)
(* answered, so the call ends; the probe is the last GET, issued at most   *)
(* once and only when the urls counted by the candidate loop are 0.        *)
(***************************************************************************)
RECURSIVE CountedUrls(_)
CountedUrls(l) ==
    IF l = <<>> THEN 0
    ELSE (IF \/ Head(l).url.kind = "candidate" /\ IsLeafDocument(Head(l).resp)
             \/ Head(l).url.kind = "child" /\ Parsed(Head(l).resp)
          THEN Head(l).resp.urls ELSE 0) + CountedUrls(Tail(l))

C19_AtMostFifteenGets ==
    /\ Len(frame.log) <= 15
    /\ Cardinality(Requests("candidate")) <= 4
    /\ Cardinality(Requests("child")) <= 10
    /\ Cardinality(Requests("homepage")) <= 1
    /\ Requests("candidate") \cup Requests("child") \cup Requests("homepage") = 1..Len(frame.log)
    /\ ~Final(frame) => Len(frame.log) < 15 /\ ENABLED NextExpand
    /\ \A h \in Requests("homepage") :
          /\ h = Len(frame.log)
          /\ Final(frame)
          /\ CountedUrls(SubSeq(frame.log, 1, h - 1)) = 0

C19_Witness ==
    /\ Returned
    /\ Len(frame.log) = 15
    /\ Cardinality(Requests("candidate")) = 4
    /\ Cardinality(Requests("child")) = 10
    /\ Requests("homepage") = {15}

(***************************************************************************)
(* C20: in every record the page count agrees with the method: Homepage    *)
(* only (estimate) implies Pages = 1; Domain inaccessible, Timeout and     *)
(* Error: ... imply Pages = 0; Pages > 1 implies Single sitemap or Sitemap *)
(* index (N sitemaps).                                                     *)
(***************************************************************************)
C20_PagesAgreeWithMethod ==
    Final(frame) =>
        /\ RecordOfCall.Method.label = "Homepage only (estimate)" => RecordOfCall.Pages = 1
        /\ RecordOfCall.Method.label \in {"Domain inaccessible", "Timeout", "Error: "} =>
              RecordOfCall.Pages = 0
        /\ RecordOfCall.Pages > 1 =>
              RecordOfCall.Method.label \in {"Single sitemap", "Sitemap index (N sitemaps)"}

C20_Witness ==
    /\ Returned
    /\ RecordOfCall.Pages > 1
    /\ RecordOfCall.Method.label = "Sitemap index (N sitemaps)"
    /\ \E j \in Requests("child") : FailedGet(frame.log[j].resp)

(***************************************************************************)
(* C17: two runs of process_domains_batch on the same domain list against  *)
(* a server that answers every URL the same in both runs return the same   *)
(* set of {Domain, Pages, Method} records.                                 *)
(***************************************************************************)
C17_SecondRunSameRecords ==
    (run = 2 /\ opc = "returned") =>
        /\ Len(results) = Len(first_results)
        /\ {results[n] : n \in 1..Len(results)}
              = {first_results[n] : n \in 1..Len(first_results)}

C17_Witness ==
    /\ run = 2 /\ opc = "returned"
    /\ Len(results) = 2
    /\ results # first_results
    /\ results[1].Method.label = "Error: "
    /\ results[2].Method.label = "Homepage only (estimate)"

====
